---- MODULE Spec2Model ----
(***************************************************************************)
(* The name_sync RPC call of the Namecoin daemon (the patch under _doc/)   *)
(* and the callers that drive it.  A call is translated step by step: the  *)
(* argument checks, the long-poll wait with its lock hand-off, and the     *)
(* block scan that emits name operations and atblock checkpoints.          *)
(*                                                                         *)
(* Names, values and block hashes are opaque tokens (integers); an event   *)
(* is a 3-tuple as in the RPC result: <<"update", name, value>> or         *)
(* <<"atblock", hash, height>>.                                            *)
(***************************************************************************)
EXTENDS Integers, Sequences, FiniteSets, TLC

\* ------------------------------------------------------------------ bounds
MaxHeight == 2
MaxCount == 1
\* How many times the sync client may crash.
MaxCrashes == 1
\* How many statuses server.Run may report.
MaxReports == 1

\* ------------------------------------------------------------ the ledger
\* The canonical block of height h has hash h.  One more block is known to
\* the block index without being on the active chain, and one hash is
\* known to nobody.
StaleHash == MaxHeight + 1
UnknownHash == MaxHeight + 2
NoOne == "none"
Procs == {"client", "adhoc"}
\* The start hashes of the calls that are not the sync client's.
AdhocHashes == {0, StaleHash, UnknownHash}
Counts == -1 .. MaxCount

\* A transaction output: a name script (new, firstupdate, update) or
\* something else.
Out(op, name) == [op |-> op, name |-> name]

\* The shapes of block a miner may append: transactions in order, each with
\* its outputs in order.  nc is CTransaction::IsNamecoin().
Coinbase == [nc |-> FALSE, vout |-> <<Out("none", 0)>>]
BlockShapes ==
    { <<Coinbase>>,
      <<Coinbase, [nc |-> TRUE, vout |-> <<Out("first", 1), Out("none", 0)>>]>>,
      <<Coinbase,
        [nc |-> TRUE, vout |-> <<Out("upd", 1)>>],
        [nc |-> FALSE, vout |-> <<Out("upd", 2)>>],
        [nc |-> TRUE, vout |-> <<Out("new", 2), Out("upd", 2), Out("first", 1)>>]>> }

\* The value a name output of block `hash` carries: distinct per block.
Stamp(vtx, hash) ==
    [t \in 1 .. Len(vtx) |->
        [nc |-> vtx[t].nc,
         vout |-> [o \in 1 .. Len(vtx[t].vout) |->
                      [op |-> vtx[t].vout[o].op,
                       name |-> vtx[t].vout[o].name,
                       value |-> hash * 10 + t]]]]

VARIABLES
    chainActive,    \* the active chain: hashes by height, chainActive[h + 1]
    mapBlockIndex,  \* hash -> CBlockIndex of every block known
    blockFile,      \* hash -> the block's transactions, as stored on disk
    fRPCRunning,    \* IsRPCRunning()
    cs_main,        \* owner of the main lock
    cs_wallet,      \* owner of pwalletMain->cs_wallet
    csBestBlock,    \* owner of the mutex of cvBlockChange
    rpc,            \* per RPC thread: position and locals of name_sync
    hist,           \* per RPC thread: what the call in progress has done
    startBlock,     \* the block the sync client was seeded with
    cursor,         \* the sync client's cursor (a block hash)
    received,       \* the name operations the sync client has received
    memo,           \* a batch returned earlier, kept for comparison
    store,          \* the sync client's name database: name -> value
    inbox,          \* the events of the batch the sync client is applying
    crashes,        \* how many times the sync client has crashed
    pending,        \* tip changes and shutdowns not yet signalled
    daemon          \* the namesync daemon's RunFunc and its goroutine

vars == <<chainActive, mapBlockIndex, blockFile, fRPCRunning,
          cs_main, cs_wallet, csBestBlock, rpc, hist, startBlock, cursor,
          received, memo, store, inbox, crashes, pending, daemon>>

ledger == <<chainActive, mapBlockIndex, blockFile>>
locks == <<cs_main, cs_wallet, csBestBlock>>
clientState == <<startBlock, cursor, received>>

\* What name_sync itself never touches.
loopState == <<store, inbox, crashes>>
nodeState == <<pending>>
daemonState == <<daemon>>
aux == <<memo, loopState, nodeState, daemonState>>

\* The daemon is built with ENABLE_WALLET and runs with a wallet.
pwalletMain == TRUE

\* chainActive.Height()
Height == Len(chainActive) - 1

\* chainActive[h]: the index entry of the block at height h, or NULL
NullIndex == [hash |-> -1, nHeight |-> -1]
ChainAt(h) ==
    IF h >= 0 /\ h <= Height THEN mapBlockIndex[chainActive[h + 1]] ELSE NullIndex

\* ------------------------------------------------- name_sync: conditions
\* An argument check that also turns away a count of zero.
NegativeOrZeroCount(count) == count <= 0

\* An argument check that lets -1 through.
CountBelowMinusOne(count) == count < -1

\* if (count < 0) return json_spirit::Array();
NegativeCount(count) == count < 0

\* mapBlockIndex.count(hash) != 0
BlockKnown(hash) == hash \in DOMAIN mapBlockIndex

\* if (wait && height == maxHeight)
EnterWait(wait, height, maxHeight) == wait /\ height = maxHeight

\* A wait loop that tests for a tip above the sampled one.
\* A wait that only a shutdown ends.
KeepWaitingForStop(maxHeight) == fRPCRunning

KeepWaitingWhileAbove(maxHeight) == Height > maxHeight /\ fRPCRunning

\* while (chainActive.Height() == maxHeight && IsRPCRunning())
KeepWaiting(maxHeight) == Height = maxHeight /\ fRPCRunning

\* A scan that resumes where the sync client's last batch ended, whatever
\* block the caller named.
FirstHeightFromCursor(height) == mapBlockIndex[cursor].nHeight + 1

\* A scan that starts at the start block itself.
FirstHeightAtStart(height) == height

\* for (int curHeight = height + 1; ...
FirstHeight(height) == height + 1

\* A call that never looks at the service after the wait.
NeverStopped == FALSE

\* if (!IsRPCRunning()) throw ...
ServiceStopped == ~fRPCRunning

\* A budget test that stops as soon as the count is reached.
BudgetReached(numEmitted, count) == numEmitted >= count

\* if (numEmitted > count) break;
BudgetExceeded(numEmitted, count) == numEmitted > count

\* A termination test that forgets the end of the chain.
WillTerminateOnBudget(curHeight, maxHeight, numEmitted, count) ==
    numEmitted > count

\* bool willTerminate = ((curHeight + 1) > maxHeight || numEmitted > count);
WillTerminate(curHeight, maxHeight, numEmitted, count) ==
    (curHeight + 1) > maxHeight \/ numEmitted > count

\* A checkpoint only for blocks with name operations.
EmitAtBlockIfEmitted(emitted, willTerminate) == emitted

\* if (emitted || willTerminate)
EmitAtBlock(emitted, willTerminate) == emitted \/ willTerminate

\* A checkpoint built after the loop counter has moved on.
AtBlockNextHeight(pblockindex, curHeight) ==
    <<"atblock", pblockindex.hash, curHeight + 1>>

\* ["atblock", pblockindex->GetBlockHash().GetHex(), curHeight]
AtBlock(pblockindex, curHeight) == <<"atblock", pblockindex.hash, curHeight>>

\* ------------------------------------------------- name_sync: extraction
\* CNameScript::isNameOp() and isAnyUpdate()
IsNameOp(out) == out.op \in {"new", "first", "upd"}
IsAnyUpdate(out) == out.op \in {"first", "upd"}

\* [(getNameOp() == OP_NAME_FIRSTUPDATE) ? "firstupdate" : "update", name, value]
NameEvent(out) ==
    <<IF out.op = "first" THEN "firstupdate" ELSE "update", out.name, out.value>>

\* The outputs of a transaction taken from the last to the first.
RECURSIVE ScanOutputsLastFirst(_, _)
ScanOutputsLastFirst(vout, outputIdx) ==
    IF outputIdx > Len(vout) THEN <<>>
    ELSE ScanOutputsLastFirst(vout, outputIdx + 1)
         \o (IF vout[outputIdx].op \in {"first", "upd"}
             THEN <<<<IF vout[outputIdx].op = "first" THEN "firstupdate"
                      ELSE "update",
                      vout[outputIdx].name, vout[outputIdx].value>>>>
             ELSE <<>>)

\* for (outputIdx = 0; outputIdx < tx.vout.size(); ++outputIdx)
RECURSIVE ScanOutputs(_, _)
ScanOutputs(vout, outputIdx) ==
    IF outputIdx > Len(vout) THEN <<>>
    ELSE (IF IsNameOp(vout[outputIdx]) /\ IsAnyUpdate(vout[outputIdx])
          THEN <<NameEvent(vout[outputIdx])>> ELSE <<>>)
         \o ScanOutputs(vout, outputIdx + 1)

\* for (txIdx = 0; txIdx < block.vtx.size(); ++txIdx), skipping
\* transactions that are not Namecoin transactions
RECURSIVE ScanTxs(_, _)
ScanTxs(vtx, txIdx) ==
    IF txIdx > Len(vtx) THEN <<>>
    ELSE (IF ~vtx[txIdx].nc THEN <<>> ELSE ScanOutputs(vtx[txIdx].vout, 1))
         \o ScanTxs(vtx, txIdx + 1)

\* A block's checkpoint ahead of the block's operations.
BlockEventsCheckpointFirst(vtx, pblockindex, curHeight, maxHeight, numEmitted, count) ==
    LET ops == ScanTxs(vtx, 1)
        emitted == Len(ops) > 0
        willTerminate ==
            WillTerminate(curHeight, maxHeight, numEmitted + Len(ops), count)
    IN  (IF EmitAtBlock(emitted, willTerminate)
         THEN <<AtBlock(pblockindex, curHeight)>> ELSE <<>>) \o ops

\* The events one iteration of the block loop appends for the block at
\* curHeight, whose transactions are vtx.
BlockEvents(vtx, pblockindex, curHeight, maxHeight, numEmitted, count) ==
    LET ops == ScanTxs(vtx, 1)
        emitted == Len(ops) > 0
        willTerminate ==
            WillTerminate(curHeight, maxHeight, numEmitted + Len(ops), count)
    IN  ops \o (IF EmitAtBlock(emitted, willTerminate)
                THEN <<AtBlock(pblockindex, curHeight)>> ELSE <<>>)

IsCheckpoint(ev) == ev[1] = "atblock"
IsOperation(ev) == ev[1] # "atblock"

\* ---------------------------------------------------------------- state
IdleCall ==
    [pc |-> "idle", hash |-> 0, count |-> 0, wait |-> FALSE, height |-> 0,
     maxHeight |-> 0, curHeight |-> 0, numEmitted |-> 0, events |-> <<>>,
     result |-> "none"]

\* What the call in progress has done so far: the tip height when it was
\* made, its block-index lookups, the blocks it read, whether it released a
\* lock, whether it took the long-poll branch, and whether the service was
\* running when it left the wait loop.
NoHist ==
    [tipAtCall |-> 0, lookups |-> 0, reads |-> <<>>, unlocked |-> FALSE,
     waited |-> FALSE, leftRunning |-> "na"]

\* The names of the block shapes, none of them stored yet.
Names == {1, 2}
EmptyStore == [n \in Names |-> 0]

\* namesync.go before service.Main has called RunFunc.
NotRunning ==
    [main |-> "none", run |-> "none", stop |-> FALSE, reported |-> <<>>,
     hookCalled |-> FALSE, drop |-> "none", hook |-> "none", started |-> FALSE,
     runErr |-> "none", runFirst |-> FALSE, ret |-> "none"]

NoMemo == [hash |-> -1, count |-> -1, tip |-> -1, events |-> <<>>]

Init ==
    /\ chainActive = <<0>>
    /\ mapBlockIndex =
          [h \in {0, StaleHash} |->
              IF h = StaleHash THEN [hash |-> h, nHeight |-> 1]
              ELSE [hash |-> h, nHeight |-> h]]
    /\ blockFile = [h \in {0, StaleHash} |-> Stamp(<<Coinbase>>, h)]
    /\ startBlock = 0
    /\ fRPCRunning = TRUE
    /\ cs_main = NoOne
    /\ cs_wallet = NoOne
    /\ csBestBlock = NoOne
    /\ rpc = [p \in Procs |-> IdleCall]
    /\ hist = [p \in Procs |-> NoHist]
    /\ cursor = startBlock
    /\ received = <<>>
    /\ memo = NoMemo
    /\ store = EmptyStore
    /\ inbox = <<>>
    /\ crashes = 0
    /\ pending = {}
    /\ daemon = NotRunning

\* ------------------------------------------------------------- the calls
\* A fault that leaves the events gathered so far in the response.
ThrowWithEvents(c, fault) == [c EXCEPT !.pc = "ret", !.result = fault]

Throw(c, fault) == [c EXCEPT !.pc = "ret", !.result = fault, !.events = <<>>]
Finish(c) == [c EXCEPT !.pc = "ret", !.result = "batch"]

\* The RPC dispatcher runs name_sync (registered as not thread safe) with
\* the main lock and, when there is a wallet, the wallet lock held.
Dispatch(p, hash, count, wait) ==
    /\ rpc[p].pc = "idle"
    /\ fRPCRunning
    /\ cs_main = NoOne
    /\ cs_wallet = NoOne
    /\ cs_main' = p
    /\ cs_wallet' = IF pwalletMain THEN p ELSE cs_wallet
    /\ rpc' = [rpc EXCEPT ![p] = [IdleCall EXCEPT !.pc = "entry", !.hash = hash,
                                     !.count = count, !.wait = wait]]
    /\ hist' = [hist EXCEPT ![p] = [NoHist EXCEPT !.tipAtCall = Height]]
    /\ UNCHANGED <<ledger, fRPCRunning, csBestBlock, clientState, aux>>

\* Argument checks, lookup and read of the start block, and the choice
\* between the long-poll branch and the scan.  readOk is whether
\* ReadBlockFromDisk succeeds.
Entry(p, readOk) ==
    LET c == rpc[p]
        h == hist[p]
    IN
    /\ c.pc = "entry"
    /\ IF NegativeCount(c.count)
       THEN /\ rpc' = [rpc EXCEPT ![p] = Finish(c)]
            /\ hist' = hist
       ELSE IF ~BlockKnown(c.hash)
       THEN /\ rpc' = [rpc EXCEPT ![p] = Throw(c, "UnknownBlock")]
            /\ hist' = [hist EXCEPT ![p].lookups = h.lookups + 1]
       ELSE IF ~readOk
       THEN /\ rpc' = [rpc EXCEPT ![p] = Throw(c, "LedgerReadError")]
            /\ hist' = [hist EXCEPT ![p].lookups = h.lookups + 2,
                                    ![p].reads = Append(h.reads, c.hash)]
       ELSE LET height == mapBlockIndex[c.hash].nHeight
                maxHeight == Height
                waits == EnterWait(c.wait, height, maxHeight)
            IN  /\ rpc' = [rpc EXCEPT ![p] =
                              [c EXCEPT !.height = height,
                                        !.maxHeight = maxHeight,
                                        !.curHeight = FirstHeight(height),
                                        !.pc = IF waits THEN "leave" ELSE "scan"]]
                /\ hist' = [hist EXCEPT ![p].lookups = h.lookups + 2,
                                        ![p].reads = Append(h.reads, c.hash),
                                        ![p].waited = waits]
    /\ UNCHANGED <<ledger, fRPCRunning, locks, clientState, aux>>

\* A wait entered with the main lock still held.
LeaveWalletOnly(p) ==
    /\ rpc[p].pc = "leave"
    /\ cs_wallet' = IF pwalletMain THEN NoOne ELSE cs_wallet
    /\ rpc' = [rpc EXCEPT ![p].pc = "lockbest"]
    /\ hist' = [hist EXCEPT ![p].unlocked = TRUE]
    /\ UNCHANGED <<ledger, fRPCRunning, cs_main, csBestBlock, clientState, aux>>

\* LEAVE_CRITICAL_SECTION(pwalletMain->cs_wallet); LEAVE_CRITICAL_SECTION(cs_main);
LeaveLocks(p) ==
    /\ rpc[p].pc = "leave"
    /\ cs_wallet' = IF pwalletMain THEN NoOne ELSE cs_wallet
    /\ cs_main' = NoOne
    /\ rpc' = [rpc EXCEPT ![p].pc = "lockbest"]
    /\ hist' = [hist EXCEPT ![p].unlocked = TRUE]
    /\ UNCHANGED <<ledger, fRPCRunning, csBestBlock, clientState, aux>>

\* boost::unique_lock<boost::mutex> lock(csBestBlock);
LockBestBlock(p) ==
    /\ rpc[p].pc = "lockbest"
    /\ csBestBlock = NoOne
    /\ csBestBlock' = p
    /\ rpc' = [rpc EXCEPT ![p].pc = "wcheck"]
    /\ UNCHANGED <<ledger, fRPCRunning, cs_main, cs_wallet, hist,
                   clientState, aux>>

\* One evaluation of the while condition: block in cvBlockChange.wait(lock),
\* which gives up csBestBlock, or leave the loop.
WaitCheck(p) ==
    /\ rpc[p].pc = "wcheck"
    /\ IF KeepWaiting(rpc[p].maxHeight)
       THEN /\ rpc' = [rpc EXCEPT ![p].pc = "blocked"]
            /\ csBestBlock' = NoOne
            /\ hist' = hist
       ELSE /\ rpc' = [rpc EXCEPT ![p].pc = "sample"]
            /\ csBestBlock' = csBestBlock
            /\ hist' = [hist EXCEPT ![p].leftRunning =
                                        IF fRPCRunning THEN "yes" ELSE "no"]
    /\ UNCHANGED <<ledger, fRPCRunning, cs_main, cs_wallet,
                   clientState, aux>>

\* A condition variable may wake a waiter without a notification.
SpuriousWakeup(p) ==
    /\ rpc[p].pc = "blocked"
    /\ rpc' = [rpc EXCEPT ![p].pc = "woken"]
    /\ UNCHANGED <<ledger, fRPCRunning, locks, hist, clientState, aux>>

\* cvBlockChange.wait(lock) returns with csBestBlock locked again.
WaitReturn(p) ==
    /\ rpc[p].pc = "woken"
    /\ csBestBlock = NoOne
    /\ csBestBlock' = p
    /\ rpc' = [rpc EXCEPT ![p].pc = "wcheck"]
    /\ UNCHANGED <<ledger, fRPCRunning, cs_main, cs_wallet, hist,
                   clientState, aux>>

\* A lock on csBestBlock whose scope reaches past the critical sections
\* being entered again.
SampleTipHoldingLock(p) ==
    /\ rpc[p].pc = "sample"
    /\ rpc' = [rpc EXCEPT ![p].maxHeight = Height, ![p].pc = "entermain"]
    /\ UNCHANGED <<ledger, fRPCRunning, locks, hist, clientState, aux>>

\* A scan bound taken to be one block above the height sampled at entry.
SampleTipNextBlock(p) ==
    /\ rpc[p].pc = "sample"
    /\ rpc' = [rpc EXCEPT ![p].maxHeight = rpc[p].maxHeight + 1,
                          ![p].pc = "entermain"]
    /\ csBestBlock' = NoOne
    /\ UNCHANGED <<ledger, fRPCRunning, cs_main, cs_wallet, hist,
                   clientState, aux>>

\* maxHeight = chainActive.Height(); and the end of the scope of the lock
SampleTip(p) ==
    /\ rpc[p].pc = "sample"
    /\ rpc' = [rpc EXCEPT ![p].maxHeight = Height, ![p].pc = "entermain"]
    /\ csBestBlock' = NoOne
    /\ UNCHANGED <<ledger, fRPCRunning, cs_main, cs_wallet, hist,
                   clientState, aux>>

\* ENTER_CRITICAL_SECTION(cs_main);
EnterMain(p) ==
    /\ rpc[p].pc = "entermain"
    /\ cs_main = NoOne
    /\ cs_main' = p
    /\ rpc' = [rpc EXCEPT ![p].pc = "enterwallet"]
    /\ UNCHANGED <<ledger, fRPCRunning, cs_wallet, csBestBlock,
                   hist, clientState, aux>>

\* if (pwalletMain) ENTER_CRITICAL_SECTION(pwalletMain->cs_wallet);
EnterWallet(p) ==
    /\ rpc[p].pc = "enterwallet"
    /\ pwalletMain => cs_wallet = NoOne
    /\ cs_wallet' = IF pwalletMain THEN p ELSE cs_wallet
    /\ rpc' = [rpc EXCEPT ![p].pc = "checkrun"]
    /\ UNCHANGED <<ledger, fRPCRunning, cs_main, csBestBlock, hist,
                   clientState, aux>>

\* if (!IsRPCRunning()) throw JSONRPCError(RPC_CLIENT_NOT_CONNECTED, ...);
CheckRunning(p) ==
    /\ rpc[p].pc = "checkrun"
    /\ rpc' = [rpc EXCEPT ![p] =
                  IF ServiceStopped THEN Throw(rpc[p], "ServiceStopping")
                  ELSE [rpc[p] EXCEPT !.pc = "scan"]]
    /\ UNCHANGED <<ledger, fRPCRunning, locks, hist, clientState, aux>>

\* One pass of the block loop: the loop test, the budget test, and then the
\* read and the scan of the block at curHeight.
ScanBlock(p, readOk) ==
    LET c == rpc[p]
        pblockindex == ChainAt(c.curHeight)
    IN
    /\ c.pc = "scan"
    /\ IF ~(c.curHeight <= c.maxHeight) \/ BudgetExceeded(c.numEmitted, c.count)
       THEN /\ rpc' = [rpc EXCEPT ![p] = Finish(c)]
            /\ hist' = hist
       ELSE IF pblockindex = NullIndex
       THEN /\ rpc' = [rpc EXCEPT ![p] = Throw(c, "crash")]
            /\ hist' = hist
       ELSE IF ~readOk
       THEN /\ rpc' = [rpc EXCEPT ![p] = Throw(c, "LedgerReadError")]
            /\ hist' = [hist EXCEPT ![p].reads =
                                        Append(hist[p].reads, pblockindex.hash)]
       ELSE LET new == BlockEvents(blockFile[pblockindex.hash], pblockindex,
                                    c.curHeight, c.maxHeight, c.numEmitted,
                                    c.count)
                n == Cardinality({i \in 1 .. Len(new) : IsOperation(new[i])})
            IN  /\ rpc' = [rpc EXCEPT ![p] =
                              [c EXCEPT !.events = c.events \o new,
                                        !.numEmitted = c.numEmitted + n,
                                        !.curHeight = c.curHeight + 1]]
                /\ hist' = [hist EXCEPT ![p].reads =
                                        Append(hist[p].reads, pblockindex.hash)]
    /\ UNCHANGED <<ledger, fRPCRunning, locks, clientState, aux>>

\* ------------------------------------------------------- the sync client
\* The hash of the last checkpoint of a batch; the cursor stays when the
\* batch has none.
RECURSIVE LastCheckpoint(_, _)
LastCheckpoint(events, old) ==
    IF events = <<>> THEN old
    ELSE IF IsCheckpoint(events[Len(events)]) THEN events[Len(events)][2]
    ELSE LastCheckpoint(SubSeq(events, 1, Len(events) - 1), old)

Operations(events) == SelectSeq(events, IsOperation)

\* The call returns: the dispatcher's locks are released, and the sync
\* client takes a batch into its store and moves its cursor.
Return(p) ==
    /\ rpc[p].pc = "ret"
    /\ cs_main' = NoOne
    /\ cs_wallet' = IF pwalletMain THEN NoOne ELSE cs_wallet
    /\ IF p = "client" /\ rpc[p].result = "batch"
       THEN /\ received' = received \o Operations(rpc[p].events)
            /\ cursor' = LastCheckpoint(rpc[p].events, cursor)
       ELSE UNCHANGED <<cursor, received>>
    /\ rpc' = [rpc EXCEPT ![p] = IdleCall]
    /\ hist' = [hist EXCEPT ![p] = NoHist]
    /\ UNCHANGED <<ledger, fRPCRunning, csBestBlock, startBlock, aux>>

\* ------------------------------------------------------- the environment
NotifyAll(r) ==
    [p \in Procs |-> IF r[p].pc = "blocked" THEN [r[p] EXCEPT !.pc = "woken"]
                     ELSE r[p]]

\* The node connects a new block to the tip under the main lock and
\* signals cvBlockChange.
AppendBlock(shape) ==
    LET h == Height + 1
    IN
    /\ h <= MaxHeight
    /\ cs_main = NoOne
    /\ chainActive' = Append(chainActive, h)
    /\ mapBlockIndex' = (h :> [hash |-> h, nHeight |-> h]) @@ mapBlockIndex
    /\ blockFile' = (h :> Stamp(shape, h)) @@ blockFile
    /\ rpc' = NotifyAll(rpc)
    /\ UNCHANGED <<fRPCRunning, locks, hist, clientState, aux>>

\* The RPC service stops and wakes every waiter.
StopRPC ==
    /\ fRPCRunning
    /\ fRPCRunning' = FALSE
    /\ rpc' = NotifyAll(rpc)
    /\ UNCHANGED <<ledger, locks, hist, clientState, aux>>

\* ------------------------------------------------------- specifications
Step(p) ==
    \/ \E readOk \in BOOLEAN : Entry(p, readOk)
    \/ LeaveLocks(p)
    \/ LockBestBlock(p)
    \/ WaitCheck(p)
    \/ SpuriousWakeup(p)
    \/ WaitReturn(p)
    \/ SampleTip(p)
    \/ EnterMain(p)
    \/ EnterWallet(p)
    \/ CheckRunning(p)
    \/ \E readOk \in BOOLEAN : ScanBlock(p, readOk)
    \/ Return(p)

Next ==
    \/ \E count \in 0 .. MaxCount, wait \in BOOLEAN :
          Dispatch("client", cursor, count, wait)
    \/ \E hash \in AdhocHashes, count \in Counts, wait \in BOOLEAN :
          Dispatch("adhoc", hash, count, wait)
    \/ \E p \in Procs : Step(p)
    \/ \E shape \in BlockShapes : AppendBlock(shape)
    \/ StopRPC

Spec == Init /\ [][Next]_vars

\* A sync client that polls without waiting, on a ledger whose reads
\* succeed, while the chain grows to its final length.  The client keeps
\* calling: its steps are weakly fair.
ClientPoll ==
    \/ \E count \in 0 .. MaxCount : Dispatch("client", cursor, count, FALSE)
    \/ Entry("client", TRUE)
    \/ ScanBlock("client", TRUE)
    \/ Return("client")

NextProgress ==
    \/ ClientPoll
    \/ \E shape \in BlockShapes : AppendBlock(shape)

SpecProgress == Init /\ [][NextProgress]_vars /\ WF_vars(ClientPoll)

\* A caller keeps the batch of a call that ran on an unchanged chain, to
\* compare it with what a later call with the same arguments returns.
ReturnRemembered(p) ==
    /\ rpc[p].pc = "ret"
    /\ rpc[p].result = "batch"
    /\ hist[p].tipAtCall = Height
    /\ memo = NoMemo
    /\ memo' = [hash |-> rpc[p].hash, count |-> rpc[p].count, tip |-> Height,
                events |-> rpc[p].events]
    /\ cs_main' = NoOne
    /\ cs_wallet' = IF pwalletMain THEN NoOne ELSE cs_wallet
    /\ IF p = "client"
       THEN /\ received' = received \o Operations(rpc[p].events)
            /\ cursor' = LastCheckpoint(rpc[p].events, cursor)
       ELSE UNCHANGED <<cursor, received>>
    /\ rpc' = [rpc EXCEPT ![p] = IdleCall]
    /\ hist' = [hist EXCEPT ![p] = NoHist]
    /\ UNCHANGED <<ledger, fRPCRunning, csBestBlock, startBlock, loopState, nodeState,
                   daemonState>>

\* The sync client polls from its cursor while another caller asks for the
\* batch after the genesis block again and again.
NextReplay ==
    \/ \E count \in 0 .. MaxCount : Dispatch("client", cursor, count, FALSE)
    \/ \E count \in 0 .. MaxCount, wait \in BOOLEAN :
          Dispatch("adhoc", 0, count, wait)
    \/ \E p \in Procs : Step(p)
    \/ \E p \in Procs : ReturnRemembered(p)
    \/ \E shape \in BlockShapes : AppendBlock(shape)

SpecReplay == Init /\ [][NextReplay]_vars

\* The sync client applying a batch event by event: a name operation is
\* upserted under its name (the last write wins), a checkpoint is
\* persisted as the cursor.  A crash loses the rest of the batch; the
\* store and the cursor are on disk and survive it.
Upsert(db, ev) == [db EXCEPT ![ev[2]] = ev[3]]

RECURSIVE ApplyAll(_, _)
ApplyAll(db, events) ==
    IF events = <<>> THEN db
    ELSE ApplyAll(IF IsOperation(Head(events)) THEN Upsert(db, Head(events))
                  ELSE db,
                  Tail(events))

ClientCall(count, wait) ==
    /\ inbox = <<>>
    /\ Dispatch("client", cursor, count, wait)

Serve(p) ==
    \/ \E readOk \in BOOLEAN : Entry(p, readOk)
    \/ LeaveLocks(p)
    \/ LockBestBlock(p)
    \/ WaitCheck(p)
    \/ SpuriousWakeup(p)
    \/ WaitReturn(p)
    \/ SampleTip(p)
    \/ EnterMain(p)
    \/ EnterWallet(p)
    \/ CheckRunning(p)
    \/ \E readOk \in BOOLEAN : ScanBlock(p, readOk)

\* The call returns and the sync client has the batch in memory.
Deliver(p) ==
    /\ rpc[p].pc = "ret"
    /\ cs_main' = NoOne
    /\ cs_wallet' = IF pwalletMain THEN NoOne ELSE cs_wallet
    /\ inbox' = IF rpc[p].result = "batch" THEN rpc[p].events ELSE <<>>
    /\ rpc' = [rpc EXCEPT ![p] = IdleCall]
    /\ hist' = [hist EXCEPT ![p] = NoHist]
    /\ UNCHANGED <<ledger, fRPCRunning, csBestBlock, clientState, memo,
                   store, crashes, nodeState, daemonState>>

ApplyEvent ==
    /\ inbox # <<>>
    /\ LET ev == Head(inbox)
       IN  IF IsCheckpoint(ev)
           THEN /\ cursor' = ev[2]
                /\ UNCHANGED <<store, received>>
           ELSE /\ store' = Upsert(store, ev)
                /\ received' = Append(received, ev)
                /\ UNCHANGED cursor
    /\ inbox' = Tail(inbox)
    /\ UNCHANGED <<ledger, fRPCRunning, locks, rpc, hist, startBlock, memo,
                   crashes, nodeState, daemonState>>

Crash ==
    /\ inbox # <<>>
    /\ crashes < MaxCrashes
    /\ crashes' = crashes + 1
    /\ inbox' = <<>>
    /\ UNCHANGED <<ledger, fRPCRunning, locks, rpc, hist, clientState, memo,
                   store, nodeState, daemonState>>

NextCrash ==
    \/ \E count \in 0 .. MaxCount, wait \in BOOLEAN : ClientCall(count, wait)
    \/ Serve("client")
    \/ Deliver("client")
    \/ ApplyEvent
    \/ Crash
    \/ \E shape \in BlockShapes : AppendBlock(shape)

SpecCrash == Init /\ [][NextCrash]_vars

\* Calls that long-poll at the tip, and a node that signals under
\* csBestBlock: it connects a block holding the main lock, then takes
\* csBestBlock, notifies cvBlockChange and lets both locks go; a shutdown
\* clears fRPCRunning and notifies under csBestBlock as well.  A waiter
\* holds csBestBlock from the evaluation of its while condition until
\* cvBlockChange.wait has it blocked, so no notification falls in between.
Node == "node"

WaitCall(p) == Dispatch(p, chainActive[Len(chainActive)], 0, TRUE)

Waiter(p) ==
    \/ Entry(p, TRUE)
    \/ LeaveLocks(p)
    \/ LockBestBlock(p)
    \/ WaitCheck(p)
    \/ WaitReturn(p)
    \/ SampleTip(p)
    \/ EnterMain(p)
    \/ EnterWallet(p)
    \/ CheckRunning(p)
    \/ ScanBlock(p, TRUE)
    \/ Return(p)

ConnectTip(shape) ==
    LET h == Height + 1
    IN
    /\ h <= MaxHeight
    /\ cs_main = NoOne
    /\ cs_main' = Node
    /\ chainActive' = Append(chainActive, h)
    /\ mapBlockIndex' = (h :> [hash |-> h, nHeight |-> h]) @@ mapBlockIndex
    /\ blockFile' = (h :> Stamp(shape, h)) @@ blockFile
    /\ pending' = pending \cup {"tip"}
    /\ UNCHANGED <<fRPCRunning, cs_wallet, csBestBlock, rpc, hist,
                   clientState, memo, loopState, daemonState>>

SignalTip ==
    /\ "tip" \in pending
    /\ cs_main = Node
    /\ csBestBlock = NoOne
    /\ rpc' = NotifyAll(rpc)
    /\ cs_main' = NoOne
    /\ pending' = pending \ {"tip"}
    /\ UNCHANGED <<ledger, fRPCRunning, cs_wallet, csBestBlock, hist,
                   clientState, memo, loopState, daemonState>>

BeginStop ==
    /\ fRPCRunning
    /\ fRPCRunning' = FALSE
    /\ pending' = pending \cup {"stop"}
    /\ UNCHANGED <<ledger, locks, rpc, hist, clientState, memo, loopState,
                   daemonState>>

SignalStop ==
    /\ "stop" \in pending
    /\ csBestBlock = NoOne
    /\ rpc' = NotifyAll(rpc)
    /\ pending' = pending \ {"stop"}
    /\ UNCHANGED <<ledger, fRPCRunning, locks, hist, clientState, memo,
                   loopState, daemonState>>

NextWait ==
    \/ \E p \in Procs : WaitCall(p)
    \/ \E p \in Procs : Waiter(p)
    \/ \E p \in Procs : SpuriousWakeup(p)
    \/ ConnectTip(<<Coinbase>>)
    \/ SignalTip
    \/ BeginStop
    \/ SignalStop

\* Every lock is granted in the end and every notification is delivered;
\* nothing is assumed about spurious wakeups.
SpecWait ==
    /\ Init
    /\ [][NextWait]_vars
    /\ \A p \in Procs : SF_vars(Waiter(p))
    /\ SF_vars(SignalTip)
    /\ SF_vars(SignalStop)

\* A chain that reorganizes: the node disconnects the tip under the main
\* lock (the block stays in the index and on disk), connects it again or
\* connects a new block, and signals each tip change.
DisconnectTip ==
    /\ Height >= 1
    /\ cs_main = NoOne
    /\ chainActive' = SubSeq(chainActive, 1, Len(chainActive) - 1)
    /\ rpc' = NotifyAll(rpc)
    /\ UNCHANGED <<mapBlockIndex, blockFile, fRPCRunning, locks, hist,
                   clientState, aux>>

ReconnectTip ==
    /\ (Height + 1) \in DOMAIN blockFile
    /\ Height + 1 <= MaxHeight
    /\ cs_main = NoOne
    /\ chainActive' = Append(chainActive, Height + 1)
    /\ rpc' = NotifyAll(rpc)
    /\ UNCHANGED <<mapBlockIndex, blockFile, fRPCRunning, locks, hist,
                   clientState, aux>>

ConnectNew(shape) ==
    /\ (Height + 1) \notin DOMAIN blockFile
    /\ AppendBlock(shape)

NextReorg ==
    \/ \E count \in 0 .. MaxCount, wait \in BOOLEAN :
          Dispatch("adhoc", 0, count, wait)
    \/ Step("adhoc")
    \/ \E shape \in BlockShapes : ConnectNew(shape)
    \/ DisconnectTip
    \/ ReconnectTip

SpecReorg == Init /\ [][NextReorg]_vars

\* ------------------------------------------------- the namesync daemon
\* RunFunc of namesync.go: the calling goroutine (main) and the goroutine
\* it starts for server.Run, which meet on the unbuffered doneChan.
\* main: "none", "starting", "go", "select", "returned", "panicked".
\* run:  "none", "running", "drop", "setstarted", "send", "exited".
nameSync ==
    <<ledger, fRPCRunning, locks, rpc, hist, clientState, memo, loopState,
      nodeState>>

\* smgr.SetStatus("namesync: " + status)
SetStatus(d, status) ==
    [d EXCEPT !.reported = Append(d.reported, <<"namesync: ", status>>)]

\* service.Main calls RunFunc; doneChan := make(chan error)
CallRunFunc ==
    /\ daemon.main = "none"
    /\ daemon' = [daemon EXCEPT !.main = "starting"]
    /\ UNCHANGED nameSync

\* cfg.StatusUpdateFunc("starting")
ReportStarting ==
    /\ daemon.main = "starting"
    /\ daemon' = [SetStatus(daemon, "starting") EXCEPT !.main = "go"]
    /\ UNCHANGED nameSync

\* go func() { err := server.Run(cfg, ...) ... }()
GoRun ==
    /\ daemon.main = "go"
    /\ daemon' = [daemon EXCEPT !.main = "select", !.run = "running"]
    /\ UNCHANGED nameSync

\* case <-smgr.StopChan(): return nil
SelectStop ==
    /\ daemon.main = "select"
    /\ daemon.stop
    /\ daemon' = [daemon EXCEPT !.main = "returned", !.ret = "nil"]
    /\ UNCHANGED nameSync

\* A nil error from Run returned like any other.
SelectDoneNoPanic ==
    /\ daemon.main = "select"
    /\ daemon.run = "send"
    /\ daemon' = [daemon EXCEPT !.run = "exited", !.main = "returned",
                                !.ret = daemon.runErr]
    /\ UNCHANGED nameSync

\* case err := <-doneChan: if err == nil { panic("unreachable") }; return err
\* together with the goroutine's doneChan <- err, which it meets.
SelectDone ==
    /\ daemon.main = "select"
    /\ daemon.run = "send"
    /\ daemon' = IF daemon.runErr = "nil"
                 THEN [daemon EXCEPT !.run = "exited", !.main = "panicked"]
                 ELSE [daemon EXCEPT !.run = "exited", !.main = "returned",
                                     !.ret = daemon.runErr]
    /\ UNCHANGED nameSync

\* The service marked started whatever DropPrivileges returned.
DropPrivilegesAndStart(ok) ==
    /\ daemon.run = "drop"
    /\ daemon' = [daemon EXCEPT !.drop = IF ok THEN "ok" ELSE "EPrivileges",
                                !.started = TRUE,
                                !.hook = IF ok THEN "nil" ELSE "EPrivileges",
                                !.run = "running"]
    /\ UNCHANGED nameSync

\* err := smgr.DropPrivileges(); if err != nil { return err }
DropPrivileges(ok) ==
    /\ daemon.run = "drop"
    /\ daemon' = IF ok
                 THEN [daemon EXCEPT !.drop = "ok", !.run = "setstarted"]
                 ELSE [daemon EXCEPT !.drop = "EPrivileges",
                                     !.hook = "EPrivileges",
                                     !.run = "running"]
    /\ UNCHANGED nameSync

\* smgr.SetStarted(); return nil
SetStarted ==
    /\ daemon.run = "setstarted"
    /\ daemon' = [daemon EXCEPT !.started = TRUE, !.hook = "nil",
                                !.run = "running"]
    /\ UNCHANGED nameSync

\* server.Run: it calls the function it was given once, when it is ready
\* to start; it may report statuses through cfg.StatusUpdateFunc; it ends
\* with an error of its own, with the error the function gave it, or,
\* against its contract, with nil.
RunCallsStarted ==
    /\ daemon.run = "running"
    /\ ~daemon.hookCalled
    /\ daemon' = [daemon EXCEPT !.hookCalled = TRUE, !.run = "drop"]
    /\ UNCHANGED nameSync

RunReports(status) ==
    /\ daemon.run = "running"
    /\ Len(daemon.reported) <= MaxReports
    /\ daemon' = SetStatus(daemon, status)
    /\ UNCHANGED nameSync

RunEnds(err) ==
    /\ daemon.run = "running"
    /\ err = "EPrivileges" => daemon.hook = "EPrivileges"
    /\ daemon' = [daemon EXCEPT !.runErr = err, !.runFirst = ~daemon.stop,
                                !.run = "send"]
    /\ UNCHANGED nameSync

\* The service manager is asked to stop: StopChan becomes readable.
RequestStop ==
    /\ daemon.main # "none"
    /\ ~daemon.stop
    /\ daemon' = [daemon EXCEPT !.stop = TRUE]
    /\ UNCHANGED nameSync

NextDaemon ==
    \/ CallRunFunc
    \/ ReportStarting
    \/ GoRun
    \/ SelectStop
    \/ SelectDone
    \/ \E ok \in BOOLEAN : DropPrivileges(ok)
    \/ SetStarted
    \/ RunCallsStarted
    \/ \E status \in {"syncing", "synced"} : RunReports(status)
    \/ \E err \in {"nil", "ERun", "EPrivileges"} : RunEnds(err)
    \/ RequestStop

SpecDaemon == Init /\ [][NextDaemon]_vars

\* ------------------------------------------------------------ properties
\* What the claims speak of, read off the ledger independently of the scan.
HeightOf(hash) == mapBlockIndex[hash].nHeight
TipHash == chainActive[Len(chainActive)]

RECURSIVE Flatten(_)
Flatten(seqs) == IF seqs = <<>> THEN <<>> ELSE Head(seqs) \o Flatten(Tail(seqs))

\* The name operations (firstupdate / update) of a block, in transaction
\* order and then output order.
NameOpsOf(hash) ==
    LET nctx == SelectSeq(blockFile[hash], LAMBDA t : t.nc)
        outs == Flatten([i \in 1 .. Len(nctx) |-> nctx[i].vout])
        upds == SelectSeq(outs, LAMBDA o : o.op \in {"first", "upd"})
    IN  [i \in 1 .. Len(upds) |->
            <<IF upds[i].op = "first" THEN "firstupdate" ELSE "update",
              upds[i].name, upds[i].value>>]

\* The name operations of the canonical blocks with height in (lo, hi].
RangeOps(lo, hi) ==
    Flatten([i \in 1 .. (IF hi > lo THEN hi - lo ELSE 0) |->
                NameOpsOf(chainActive[lo + i + 1])])

Done(p) == rpc[p].pc = "ret"
Batch(p) == Done(p) /\ rpc[p].result = "batch"

\* The blocks a finished call scanned (hashes), after the start block.
Scanned(p) == IF hist[p].reads = <<>> THEN <<>> ELSE Tail(hist[p].reads)
Checkpoints(events) == SelectSeq(events, IsCheckpoint)
CheckpointsOf(events, hash) ==
    SelectSeq(events, LAMBDA ev : IsCheckpoint(ev) /\ ev[2] = hash)
Last(seq) == seq[Len(seq)]

\* C1 (exactly-once coverage across batches): at every point the name
\* operations the sync client has received, batch after batch, are exactly
\* those of the canonical blocks above its start block up to its cursor, in
\* chain order, none missing and none repeated; the cursor is a canonical
\* block.
C1_ExactlyOnce ==
    /\ cursor \in DOMAIN mapBlockIndex
    /\ HeightOf(cursor) <= Height
    /\ chainActive[HeightOf(cursor) + 1] = cursor
    /\ received = RangeOps(HeightOf(startBlock), HeightOf(cursor))

\* C1 witness: the client, having received operations from earlier batches,
\* is handed a further batch that carries operations.
C1_Witness ==
    /\ received # <<>>
    /\ Batch("client")
    /\ Operations(rpc["client"].events) # <<>>
    /\ HeightOf(cursor) > HeightOf(startBlock)

\* C2 (checkpoint coverage): in a finished call that scanned blocks, a
\* scanned block has a checkpoint (exactly one) exactly when it emitted a
\* name operation or is the last block scanned, and the last event of a
\* non-empty batch is the checkpoint of the last scanned block.
C2_CheckpointCoverage ==
    \A p \in Procs :
        Batch(p) =>
            LET sc == Scanned(p)
                ev == rpc[p].events
            IN  /\ \A i \in 1 .. Len(sc) :
                      /\ Len(CheckpointsOf(ev, sc[i])) <= 1
                      /\ (Len(CheckpointsOf(ev, sc[i])) = 1)
                            <=> (NameOpsOf(sc[i]) # <<>> \/ i = Len(sc))
                /\ Len(Checkpoints(ev)) =
                      Cardinality({i \in 1 .. Len(sc) :
                                      NameOpsOf(sc[i]) # <<>> \/ i = Len(sc)})
                /\ (ev # <<>>) <=> (sc # <<>>)
                /\ ev # <<>> =>
                      Last(ev) = <<"atblock", Last(sc), HeightOf(Last(sc))>>

\* C2 witness: a batch over two or more blocks none of which has a name
\* operation: only the last one is checkpointed.
C2_Witness ==
    \E p \in Procs :
        /\ Batch(p)
        /\ Len(Scanned(p)) >= 2
        /\ \A i \in 1 .. Len(Scanned(p)) : NameOpsOf(Scanned(p)[i]) = <<>>
        /\ Len(rpc[p].events) = 1

StrictlyIncreasing(cps) ==
    \A i \in 1 .. Len(cps) - 1 : cps[i][3] < cps[i + 1][3]

\* C3 as stated (monotonic checkpoints): in every batch the checkpoint
\* heights increase strictly and the final checkpoint is at most the tip
\* height at the time the call was made.
C3_AsStated ==
    \A p \in Procs :
        Batch(p) =>
            LET cps == Checkpoints(rpc[p].events)
            IN  /\ StrictlyIncreasing(cps)
                /\ cps # <<>> => Last(cps)[3] <= hist[p].tipAtCall

\* C3 amended: in every batch the checkpoint heights increase strictly and
\* the final checkpoint is at most the tip height the call sampled (when it
\* was made if it did not wait, on leaving the wait if it did), which is at
\* most the tip height when the call returns; a call that did not wait has
\* its final checkpoint at most the tip height at the time it was made.
C3_MonotonicCheckpoints ==
    \A p \in Procs :
        Batch(p) =>
            LET cps == Checkpoints(rpc[p].events)
            IN  /\ StrictlyIncreasing(cps)
                /\ \A i \in 1 .. Len(cps) : cps[i][3] > rpc[p].height
                /\ cps # <<>> =>
                      /\ Last(cps)[3] <= rpc[p].maxHeight
                      /\ rpc[p].maxHeight <= Height
                      /\ ~hist[p].waited => Last(cps)[3] <= hist[p].tipAtCall

\* C3 witness: a batch with two checkpoints returned by a call that waited,
\* the last one above the tip height at the time of the call.
C3_Witness ==
    \E p \in Procs :
        /\ Batch(p)
        /\ hist[p].waited
        /\ Len(Checkpoints(rpc[p].events)) >= 2
        /\ Last(Checkpoints(rpc[p].events))[3] > hist[p].tipAtCall

NumOps(events) == Len(Operations(events))

\* The name operations of the first n scanned blocks of a call.
ScannedOps(p, n) == Flatten([i \in 1 .. n |-> NameOpsOf(Scanned(p)[i])])

\* Every scanned block contributes all of its name operations.
WholeBlocks(p) ==
    Operations(rpc[p].events) = ScannedOps(p, Len(Scanned(p)))

\* C4 as stated (budget soft-cap): no block is partially scanned, and a
\* batch for count = N >= 0 holds N or more name operations only if the
\* cumulative count exceeded N in the block that crossed the threshold.
C4_AsStated ==
    \A p \in Procs :
        (Batch(p) /\ rpc[p].count >= 0) =>
            /\ WholeBlocks(p)
            /\ NumOps(rpc[p].events) >= rpc[p].count =>
                  /\ NumOps(rpc[p].events) > rpc[p].count
                  /\ Len(ScannedOps(p, Len(Scanned(p)) - 1)) <= rpc[p].count

\* C4 amended: no block is partially scanned, and a batch for count = N >= 0
\* holds more than N name operations only if the cumulative count exceeded
\* N in the last block scanned (it was at most N before every block the
\* call scanned), whose checkpoint then ends the batch; the scan stops
\* below the sampled tip only when the count has exceeded N.
C4_BudgetSoftCap ==
    \A p \in Procs :
        (Batch(p) /\ rpc[p].count >= 0) =>
            LET sc == Scanned(p)
                ev == rpc[p].events
            IN  /\ WholeBlocks(p)
                /\ \A i \in 1 .. Len(sc) :
                      Len(ScannedOps(p, i - 1)) <= rpc[p].count
                /\ NumOps(ev) > rpc[p].count =>
                      Last(ev) = <<"atblock", Last(sc), HeightOf(Last(sc))>>
                /\ (sc # <<>> /\ HeightOf(Last(sc)) < rpc[p].maxHeight) =>
                      NumOps(ev) > rpc[p].count
                /\ (sc = <<>>) => rpc[p].height >= rpc[p].maxHeight

\* C4 witness: a batch that stops below the tip with more operations than
\* the count, the threshold crossed in its last block after an earlier
\* block left the count at exactly N.
C4_Witness ==
    \E p \in Procs :
        /\ Batch(p)
        /\ rpc[p].count >= 1
        /\ Len(Scanned(p)) >= 2
        /\ Len(ScannedOps(p, Len(Scanned(p)) - 1)) = rpc[p].count
        /\ NumOps(rpc[p].events) > rpc[p].count

InWaitBranch(p) ==
    rpc[p].pc \in {"leave", "lockbest", "wcheck", "blocked", "woken"}
PastWait(p) ==
    /\ hist[p].waited
    /\ rpc[p].pc \in {"sample", "entermain", "enterwallet", "checkrun", "scan",
                      "ret"}

\* A call that took the long-poll branch is still pending as long as no
\* block has been appended above its start height and the service runs.
StaysPending ==
    \A p \in Procs :
        PastWait(p) => (Height > rpc[p].height \/ ~fRPCRunning)

\* C5 as stated (long-poll wakeup): a waiting call stays pending while no
\* block is appended and the service runs, and then returns exactly the
\* name operations of the one block above its start block followed by that
\* block's checkpoint.
C5_AsStated ==
    /\ StaysPending
    /\ \A p \in Procs :
          (Batch(p) /\ hist[p].waited) =>
              /\ Height > rpc[p].height
              /\ rpc[p].events =
                    NameOpsOf(chainActive[rpc[p].height + 2])
                       \o <<<<"atblock", chainActive[rpc[p].height + 2],
                              rpc[p].height + 1>>>>

\* C5 amended: a waiting call stays pending while no block is appended and
\* the service runs; when it returns a batch it has scanned the new blocks
\* from the one above its start block up to the tip it sampled on leaving
\* the wait (or up to the block that exceeded the count): the batch holds
\* exactly their name operations in chain order and ends with the
\* checkpoint of the last of them, and it is the operations of the one new
\* block followed by its checkpoint when the sampled tip is one above the
\* start.
C5_LongPollWakeup ==
    /\ StaysPending
    /\ \A p \in Procs :
          (Batch(p) /\ hist[p].waited) =>
              LET ev == rpc[p].events
                  top == Last(ev)[3]
              IN  /\ ev # <<>>
                  /\ IsCheckpoint(Last(ev))
                  /\ rpc[p].height < top
                  /\ top <= rpc[p].maxHeight
                  /\ Last(ev)[2] = chainActive[top + 1]
                  /\ Operations(ev) = RangeOps(rpc[p].height, top)
                  /\ (top < rpc[p].maxHeight) =>
                        NumOps(ev) > rpc[p].count
                  /\ (rpc[p].maxHeight = rpc[p].height + 1) =>
                        ev = NameOpsOf(chainActive[top + 1])
                                \o <<<<"atblock", chainActive[top + 1], top>>>>

\* C5 witness: a call that waited at the tip returns, in one batch, the
\* operations of two blocks appended while it waited.
C5_Witness ==
    \E p \in Procs :
        /\ Batch(p)
        /\ hist[p].waited
        /\ rpc[p].hash = chainActive[rpc[p].height + 1]
        /\ Last(rpc[p].events)[3] = rpc[p].height + 2
        /\ NumOps(rpc[p].events) >= 2

Suspended(p) ==
    rpc[p].pc \in {"lockbest", "wcheck", "blocked", "woken", "sample",
                   "entermain"}

\* C6 (lock release around the wait): a call suspended in its long-poll
\* wait holds neither the main lock nor the wallet lock, so the main lock is
\* free for block appends and other calls unless another call holds it, and
\* a call that reads blocks for extraction holds both locks.
C6_LocksAroundWait ==
    \A p \in Procs :
        /\ Suspended(p) =>
              /\ cs_main # p
              /\ cs_wallet # p
              /\ cs_main \in (Procs \ {p}) \cup {NoOne}
              /\ (\A q \in Procs \ {p} : Suspended(q) \/ rpc[q].pc = "idle")
                    => cs_main = NoOne /\ cs_wallet = NoOne
        /\ rpc[p].pc \in {"checkrun", "scan"} =>
              /\ cs_main = p
              /\ pwalletMain => cs_wallet = p

\* C6 witness: while one call is blocked in the wait, a block has been
\* appended above the tip it sampled and another call is scanning blocks
\* under the main lock.
C6_Witness ==
    \E p, q \in Procs :
        /\ rpc[p].pc \in {"blocked", "woken"}
        /\ Height > rpc[p].maxHeight
        /\ rpc[q].pc = "scan"
        /\ cs_main = q

\* C7 as stated (unknown block): a call whose start hash is not in the
\* block index fails with UnknownBlock and returns no events, for any count
\* and any wait.
C7_AsStated ==
    \A p \in Procs :
        (Done(p) /\ rpc[p].hash \notin DOMAIN mapBlockIndex) =>
            /\ rpc[p].result = "UnknownBlock"
            /\ rpc[p].events = <<>>

\* C7 amended: a call with count >= 0 whose start hash is not in the block
\* index fails with UnknownBlock and returns no events, for any wait; it
\* reads no block and never waits.
C7_UnknownBlock ==
    \A p \in Procs :
        (Done(p) /\ rpc[p].count >= 0 /\ rpc[p].hash \notin DOMAIN mapBlockIndex) =>
            /\ rpc[p].result = "UnknownBlock"
            /\ rpc[p].events = <<>>
            /\ hist[p].reads = <<>>
            /\ ~hist[p].waited

\* C7 witness: a call with wait = true and an unknown start hash has failed.
C7_Witness ==
    \E p \in Procs :
        /\ Done(p)
        /\ rpc[p].hash \notin DOMAIN mapBlockIndex
        /\ rpc[p].wait
        /\ rpc[p].count >= 0
        /\ rpc[p].result = "UnknownBlock"

\* C8 (negative count): a call with count < 0 returns the empty batch, not
\* an error, whatever its start hash and wait are, and has looked up no
\* block, read no block, released no lock and not entered the wait: it
\* still holds the locks it was dispatched with.
C8_NegativeCount ==
    \A p \in Procs :
        (rpc[p].pc # "idle" /\ rpc[p].count < 0) =>
            /\ rpc[p].pc \in {"entry", "ret"}
            /\ Done(p) => (rpc[p].result = "batch" /\ rpc[p].events = <<>>)
            /\ hist[p].lookups = 0
            /\ hist[p].reads = <<>>
            /\ ~hist[p].unlocked
            /\ ~hist[p].waited
            /\ cs_main = p
            /\ pwalletMain => cs_wallet = p

\* C8 witness: a call with a negative count, wait = true and an unknown
\* start hash has returned.
C8_Witness ==
    \E p \in Procs :
        /\ Done(p)
        /\ rpc[p].count < 0
        /\ rpc[p].wait
        /\ rpc[p].hash \notin DOMAIN mapBlockIndex

\* C9 (shutdown during a wait): a call that took the long-poll branch
\* returns events only if the service was running when it left the wait;
\* if the service was stopping then, the call goes no further than the
\* running test and fails with ServiceStopping without events.
C9_ShutdownDuringWait ==
    \A p \in Procs :
        hist[p].waited =>
            /\ (Batch(p) \/ rpc[p].pc = "scan") => hist[p].leftRunning = "yes"
            /\ hist[p].leftRunning = "no" =>
                  /\ rpc[p].pc \in {"sample", "entermain", "enterwallet",
                                    "checkrun", "ret"}
                  /\ Done(p) => (rpc[p].result = "ServiceStopping"
                                    /\ rpc[p].events = <<>>)
            /\ (Done(p) /\ rpc[p].result = "ServiceStopping") =>
                  (rpc[p].events = <<>> /\ ~fRPCRunning)

\* C9 witness: a call left the wait because the service was stopping and
\* has failed with ServiceStopping.
C9_Witness ==
    \E p \in Procs :
        /\ Done(p)
        /\ hist[p].waited
        /\ hist[p].leftRunning = "no"
        /\ rpc[p].result = "ServiceStopping"

\* A finished call of the client that started below the tip it sampled
\* returns a batch whose final checkpoint is above its start block.
AdvancesBelowTip ==
    (Batch("client") /\ rpc["client"].height < rpc["client"].maxHeight) =>
        /\ rpc["client"].events # <<>>
        /\ IsCheckpoint(Last(rpc["client"].events))
        /\ Last(rpc["client"].events)[3] > rpc["client"].height

\* C10 (progress to the tip): a client that keeps calling name_sync with
\* wait = false and count >= 0 from its cursor ends, once the chain has
\* stopped growing, with its cursor at the hash of the tip block for good,
\* and every call made below the tip returns a final checkpoint above its
\* start block.
C10_ProgressToTip ==
    /\ [](AdvancesBelowTip)
    /\ <>[](cursor = TipHash)

\* C10 witness: the client is handed a batch of a single checkpoint, that
\* of the tip, after a scan of blocks without name operations.
C10_Witness ==
    /\ Batch("client")
    /\ rpc["client"].events = <<<<"atblock", TipHash, Height>>>>
    /\ Height >= 2
    /\ HeightOf(cursor) < Height
    /\ RangeOps(HeightOf(cursor), Height) = <<>>

\* C11 (stateless, deterministic extraction): a name_sync call that returns
\* a batch, made with the same start block and count as an earlier call
\* whose batch the caller kept, the chain being the same for both calls,
\* returns that very batch, whatever other calls were made before or
\* between them; and no step of a call changes the ledger (the chain, the
\* block index, the stored blocks).
SameCall(p) ==
    /\ Batch(p)
    /\ memo # NoMemo
    /\ rpc[p].hash = memo.hash
    /\ rpc[p].count = memo.count
    /\ memo.tip = Height
    /\ hist[p].tipAtCall = Height

OwnStep(p) ==
    /\ rpc'[p] # rpc[p]
    /\ ~(rpc[p].pc = "blocked" /\ rpc'[p].pc = "woken")

C11_StatelessReplay ==
    /\ [](\A p \in Procs : SameCall(p) => rpc[p].events = memo.events)
    /\ [][\A p \in Procs : OwnStep(p) => ledger' = ledger]_vars

\* A second call repeats a kept batch of several events after the sync
\* client has moved its cursor.
C11_Witness ==
    /\ SameCall("adhoc")
    /\ Len(memo.events) > 2
    /\ cursor # startBlock


\* C12 (crash-safe resume): the sync client applies a batch in order,
\* upserting by name, and persists its cursor only at a checkpoint.
\* Whether or not it crashed inside a batch, once it has resumed from the
\* persisted cursor and synced to the tip its store holds, for every name,
\* the value a run without a crash leaves there; and at every moment all
\* name operations of the blocks from the start up to the persisted cursor
\* have been applied.
AppliedUpTo(hash) ==
    LET ops == RangeOps(HeightOf(startBlock), HeightOf(hash))
    IN  \A i \in 1 .. Len(ops) : \E j \in 1 .. Len(received) : received[j] = ops[i]

SyncedToTip == inbox = <<>> /\ cursor = TipHash

C12_CrashSafeResume ==
    /\ SyncedToTip =>
          store = ApplyAll(EmptyStore, RangeOps(HeightOf(startBlock), Height))
    /\ cursor \in DOMAIN mapBlockIndex
    /\ AppliedUpTo(cursor)

\* The client crashed inside a batch, applied an operation a second time
\* after resuming, and is synced to the tip of the full chain with both
\* names stored.
C12_Witness ==
    /\ crashes > 0
    /\ SyncedToTip
    /\ Height = MaxHeight
    /\ \E i, j \in 1 .. Len(received) : i < j /\ received[i] = received[j]
    /\ \A n \in Names : store[n] # 0


\* C13 (wait liveness, no lost wakeup): whenever the tip height differs
\* from the height a call sampled at entry, or the service is shutting
\* down, while the call is anywhere in its long-poll branch (also after it
\* released the main lock and before it is blocked on cvBlockChange), the
\* call eventually returns, with a batch or with ServiceStopping; this
\* holds for each of the concurrent waiters.
Released(p) ==
    /\ InWaitBranch(p)
    /\ (Height # rpc[p].maxHeight \/ ~fRPCRunning)

Returned(p) ==
    /\ Done(p)
    /\ rpc[p].result \in {"batch", "ServiceStopping"}

LeavesLoop(p) == rpc[p].pc # "sample" /\ rpc'[p].pc = "sample"

WaitStep(p) ==
    /\ LeavesLoop(p) =>
          /\ rpc[p].pc = "wcheck"
          /\ Height # rpc[p].maxHeight \/ ~fRPCRunning
    /\ rpc[p].pc = "blocked" => rpc'[p].pc \in {"blocked", "woken"}
    /\ rpc[p].pc = "woken" => rpc'[p].pc \in {"woken", "wcheck"}
    /\ rpc[p].pc = "sample" /\ rpc'[p].pc # "sample" =>
          /\ rpc'[p].pc = "entermain"
          /\ rpc'[p].maxHeight = Height
    /\ rpc[p].pc \in {"entermain", "enterwallet", "checkrun", "scan"} =>
          rpc'[p].maxHeight = rpc[p].maxHeight

ScanBounded(p) ==
    PastWait(p) /\ rpc[p].pc # "sample" =>
        /\ rpc[p].maxHeight > rpc[p].height \/ hist[p].leftRunning = "no"
        /\ \A i \in 1 .. Len(Scanned(p)) :
              HeightOf(Scanned(p)[i]) <= rpc[p].maxHeight

C14_SpuriousWakeupSafety ==
    /\ [](\A p \in Procs : ScanBounded(p))
    /\ [][\A p \in Procs : WaitStep(p)]_vars

\* A call that waited returns a batch whose scan went up to a tip sampled
\* two blocks above its start block.
C14_Witness ==
    \E p \in Procs :
        /\ Batch(p)
        /\ hist[p].waited
        /\ rpc[p].maxHeight >= rpc[p].height + 2
        /\ Len(Scanned(p)) >= 2


\* C15 (event order inside a batch): the blocks of a batch are in
\* ascending height; the name operations of a block are in transaction
\* order and, within a transaction, in output order; every firstupdate or
\* update output of a Namecoin transaction of a scanned block appears once
\* and nothing else does; a block's checkpoint, when there is one, follows
\* all of the block's operations and precedes those of any later block.
Qualifying(hash) ==
    UNION {{<<t, o>> : o \in {o \in 1 .. Len(blockFile[hash][t].vout) :
                                blockFile[hash][t].vout[o].op
                                    \in {"first", "upd"}}} :
           t \in {t \in 1 .. Len(blockFile[hash]) : blockFile[hash][t].nc}}

Before(q, r) == q[1] < r[1] \/ (q[1] = r[1] /\ q[2] < r[2])

Rank(hash, q) == 1 + Cardinality({r \in Qualifying(hash) : Before(r, q)})

OrderedOps(hash) ==
    [k \in 1 .. Cardinality(Qualifying(hash)) |->
        LET q == CHOOSE r \in Qualifying(hash) : Rank(hash, r) = k
            out == blockFile[hash][q[1]].vout[q[2]]
        IN  <<IF out.op = "first" THEN "firstupdate" ELSE "update",
              out.name, out.value>>]

OrderedBatch(sc) ==
    Flatten([i \in 1 .. Len(sc) |->
                OrderedOps(sc[i])
                \o (IF OrderedOps(sc[i]) # <<>> \/ i = Len(sc)
                    THEN <<<<"atblock", sc[i], HeightOf(sc[i])>>>>
                    ELSE <<>>)])

C15_EventOrder ==
    \A p \in Procs :
        Batch(p) =>
            /\ \A i, j \in 1 .. Len(Scanned(p)) :
                  i < j => HeightOf(Scanned(p)[i]) < HeightOf(Scanned(p)[j])
            /\ rpc[p].events = OrderedBatch(Scanned(p))

\* A batch over two blocks with operations, the second with a transaction
\* that carries two name operations after an earlier transaction's one.
C15_Witness ==
    \E p \in Procs :
        /\ Batch(p)
        /\ Len(Scanned(p)) = 2
        /\ OrderedOps(Scanned(p)[1]) # <<>>
        /\ \E q, r \in Qualifying(Scanned(p)[2]) : q[1] = r[1] /\ q[2] < r[2]
        /\ \E q, r \in Qualifying(Scanned(p)[2]) : q[1] < r[1]


\* C16 (all-or-nothing on a read failure): when ReadBlockFromDisk fails for
\* the start block or for a block of the scanned range, the call ends at
\* once with LedgerReadError and no events; a call that ended with
\* LedgerReadError returns none of the events it had gathered from earlier
\* blocks, and it read no block twice.
ReadFails(p) ==
    \/ /\ Entry(p, FALSE)
       /\ ~NegativeCount(rpc[p].count)
       /\ BlockKnown(rpc[p].hash)
    \/ /\ ScanBlock(p, FALSE)
       /\ rpc[p].curHeight <= rpc[p].maxHeight
       /\ ~BudgetExceeded(rpc[p].numEmitted, rpc[p].count)

FailedRead(p) == Done(p) /\ rpc[p].result = "LedgerReadError"

C16_AllOrNothing ==
    /\ [](\A p \in Procs :
            FailedRead(p) =>
                /\ rpc[p].events = <<>>
                /\ hist[p].reads # <<>>
                /\ \A i, j \in 1 .. Len(hist[p].reads) :
                      i # j => hist[p].reads[i] # hist[p].reads[j])
    /\ [][\A p \in Procs : ReadFails(p) => FailedRead(p)']_vars

\* The read of the second block of the range fails after the first block
\* gave name operations.
C16_Witness ==
    \E p \in Procs :
        /\ FailedRead(p)
        /\ rpc[p].numEmitted > 0
        /\ Len(hist[p].reads) = 3


\* C17 (scan stays on the existing chain): whenever a call is about to
\* fetch chainActive[curHeight] in its scan, curHeight is at most the tip
\* height at that moment, also when the tip changed between the sample of
\* maxHeight on leaving the wait and the reacquisition of the main lock;
\* no call uses a block handle that does not exist.
AboutToFetch(p) ==
    /\ rpc[p].pc = "scan"
    /\ rpc[p].curHeight <= rpc[p].maxHeight
    /\ ~BudgetExceeded(rpc[p].numEmitted, rpc[p].count)

C17_ScanOnChain ==
    \A p \in Procs :
        /\ AboutToFetch(p) => rpc[p].curHeight <= Height
        /\ rpc[p].result # "crash"


\* C18 (no deadlock from the lock hand-off): a call that enters the main
\* lock or the wallet lock again after its wait does not hold csBestBlock,
\* and it takes the main lock first and the wallet lock second; with a
\* node that connects a block holding the main lock and then takes
\* csBestBlock to signal, and two concurrent waiters, whenever some
\* process waits for a lock some process can take a step.
LockWaiting(p) ==
    \/ rpc[p].pc \in {"lockbest", "woken"} /\ csBestBlock # NoOne
    \/ rpc[p].pc = "entermain" /\ cs_main # NoOne
    \/ rpc[p].pc = "enterwallet" /\ cs_wallet # NoOne

NodeLockWaiting == pending # {} /\ csBestBlock # NoOne

SomeoneRuns ==
    \/ ENABLED (\E p \in Procs : Waiter(p))
    \/ ENABLED SignalTip
    \/ ENABLED SignalStop

C18_NoDeadlock ==
    /\ \A p \in Procs :
          /\ rpc[p].pc \in {"entermain", "enterwallet"} => csBestBlock # p
          /\ rpc[p].pc = "entermain" => cs_main # p /\ cs_wallet # p
          /\ rpc[p].pc = "enterwallet" => cs_main = p /\ cs_wallet # p
    /\ (NodeLockWaiting \/ \E p \in Procs : LockWaiting(p)) => SomeoneRuns

\* The node holds the main lock and waits for csBestBlock, which one
\* waiter holds, while the other waiter waits for the main lock.
C18_Witness ==
    /\ cs_main = Node
    /\ NodeLockWaiting
    /\ \E p, q \in Procs :
          /\ p # q
          /\ rpc[p].pc = "entermain"
          /\ csBestBlock = q


\* C19 as stated (RunFunc result): RunFunc returns nil only after a stop
\* request; when server.Run has finished before any stop request, RunFunc
\* returns exactly the non-nil error Run produced; a nil result received
\* from Run ends in a panic, not in a return.
C19_AsStated ==
    /\ daemon.ret = "nil" => daemon.stop
    /\ (daemon.runFirst /\ daemon.main = "returned") =>
          (daemon.ret = daemon.runErr /\ daemon.ret # "nil")
    /\ (daemon.run = "exited" /\ daemon.runErr = "nil") =>
          daemon.main = "panicked"

\* C19 amended: RunFunc returns nil only after a stop request, and once a
\* stop is requested it can return without Run having finished; when it
\* receives Run's result from doneChan it returns exactly that error if
\* it is not nil and panics if it is nil; a RunFunc that returned with no
\* stop requested returned Run's non-nil error.  When Run has finished
\* and a stop is requested before RunFunc has received the result, either
\* case of the select may be taken.
C19_RunFuncResult ==
    /\ daemon.ret = "nil" => daemon.stop
    /\ (daemon.main = "select" /\ daemon.stop) => ENABLED SelectStop
    /\ daemon.run = "exited" =>
          IF daemon.runErr = "nil"
          THEN daemon.main = "panicked" /\ daemon.ret = "none"
          ELSE daemon.main = "returned" /\ daemon.ret = daemon.runErr
    /\ daemon.main = "returned" =>
          \/ daemon.ret = "nil"
          \/ daemon.run = "exited" /\ daemon.ret = daemon.runErr
    /\ (daemon.main = "returned" /\ ~daemon.stop) =>
          (daemon.runFirst /\ daemon.ret = daemon.runErr /\ daemon.ret # "nil")

\* RunFunc has returned nil on a stop request while server.Run, past its
\* start function, is still running.
C19_Witness ==
    /\ daemon.main = "returned"
    /\ daemon.ret = "nil"
    /\ daemon.run = "running"
    /\ daemon.hookCalled


\* C20 (start-up sequencing): once server.Run has been launched the first
\* status reported is "namesync: starting"; the service is marked started
\* only after DropPrivileges returned without error; when DropPrivileges
\* fails its error is what the start function returns to server.Run, and
\* the service is not marked started.
C20_StartSequence ==
    /\ daemon.run # "none" =>
          /\ daemon.reported # <<>>
          /\ daemon.reported[1] = <<"namesync: ", "starting">>
    /\ daemon.run = "setstarted" => daemon.drop = "ok"
    /\ daemon.started => daemon.drop = "ok"
    /\ daemon.hook = "nil" => daemon.started
    /\ daemon.drop = "EPrivileges" =>
          /\ ~daemon.started
          /\ daemon.hook = "EPrivileges"

\* DropPrivileges failed, server.Run ended with that error and RunFunc
\* returned it, the service never having been marked started.
C20_Witness ==
    /\ daemon.drop = "EPrivileges"
    /\ daemon.hook = "EPrivileges"
    /\ daemon.main = "returned"
    /\ daemon.ret = "EPrivileges"
    /\ ~daemon.started
    /\ Len(daemon.reported) > 1


====
